---- MODULE Spec2Model ----
(***************************************************************************)
(* Passkey ceremony orchestrator of packages/core: the two passkeyOptions  *)
(* resolvers (lib/routes/passkey-options.ts and the switch-based one in    *)
(* lib/passkey/types.ts), the challenge issuers and the two response       *)
(* verifiers of lib/passkey/verify.ts, over an adapter storage, a session  *)
(* and the signed challenge cookies held by the client.                    *)
(***************************************************************************)
EXTENDS Integers, Sequences, FiniteSets, TLC

VARIABLES
    adapter,          \* options.adapter is configured (TRUE) or undefined (FALSE)
    sessionUserEmail, \* currentSession?.user?.email, None when nobody is logged in
    users,            \* adapter storage: AdapterUser rows [id, email]
    accounts,         \* adapter storage: Account rows [userId, provider, providerAccountId]
    authenticators,   \* adapter storage: AdapterAuthenticator rows
    issued,           \* number of ceremony options generated so far
    jar,              \* signed challenge cookies handed out so far (client-held)
    last,             \* the last request served: operation, inputs, outcome
    inflight          \* verifyAuthentication calls served step by step: position, locals

vars == <<adapter, sessionUserEmail, users, accounts, authenticators, issued, jar, last,
          inflight>>

storage == <<users, accounts, authenticators>>

----------------------------------------------------------------------------
(* Bounds of the model *)

MaxIssued == 1    \* options responses (fresh challenges) per behaviour
MaxCounter == 2   \* signature counters range over 0..MaxCounter
MaxCreds == 1     \* credential ids known to the clients

(* Values *)

None == "undefined"                 \* undefined / null / absent
Null == "null"                      \* emailVerified of a user not yet verified
Emails == {"a@x.com", "b@x.com"}
QueryEmails == Emails \cup {None, ""}
Actions == {None, "", "authenticate", "register", "delete"}
Counters == 0..MaxCounter
\* the challenges a client can sign over: those issued, and one never issued
ResponseChallenges == 1..(MaxIssued + 1)

\* JavaScript truthiness of an optional string
Truthy(s) == s # None /\ s # ""

\* provider.id and provider.type (providers/passkey.ts)
ProviderId == "passkey"
ProviderType == "passkey"

\* base64 strings of the one-byte credential ids 1..MaxCreds
B64 == <<"AQ==", "Ag==", "Aw==", "BA==">>
CredBytes == 1..MaxCreds
CredStrings == {B64[i] : i \in CredBytes}

\* Buffer.from(response.id, "base64")
Base64Decode(s) == IF \E i \in CredBytes : B64[i] = s
                     THEN CHOOSE i \in CredBytes : B64[i] = s
                     ELSE 0

\* randomString(32): a value never generated before
randomString(n) == "rnd" \o ToString(n)

NoUser == [id |-> None, email |-> None]
NoAccount == [userId |-> None, provider |-> None, providerAccountId |-> None]
NoAuthenticator == [credentialID |-> 0, providerAccountId |-> None, counter |-> 0]
NoCredList == [defined |-> FALSE, ids |-> {}]
NoOptions == [challenge |-> 0, userID |-> None, userName |-> None, credentials |-> NoCredList]
NoCookie == [challenge |-> 0, providerAccountId |-> None]

----------------------------------------------------------------------------
(* Adapter (collaborator): reads *)

getUserByEmail(email) ==
    IF \E u \in users : u.email = email
      THEN CHOOSE u \in users : u.email = email
      ELSE NoUser

getUserByAccount(provider, providerAccountId) ==
    IF \E a \in accounts : a.provider = provider /\ a.providerAccountId = providerAccountId
         /\ \E u \in users : u.id = a.userId
      THEN LET a == CHOOSE a \in accounts :
                      /\ a.provider = provider
                      /\ a.providerAccountId = providerAccountId
                      /\ \E u \in users : u.id = a.userId
           IN  CHOOSE u \in users : u.id = a.userId
      ELSE NoUser

getAuthenticator(credentialID) ==
    IF \E a \in authenticators : a.credentialID = credentialID
      THEN CHOOSE a \in authenticators : a.credentialID = credentialID
      ELSE NoAuthenticator

listLinkedAccounts(userId) == {a \in accounts : a.userId = userId}

listAuthenticatorsByAccountId(providerAccountId) ==
    {a \in authenticators : a.providerAccountId = providerAccountId}

----------------------------------------------------------------------------
(* Cookie signer (collaborator, lib/cookie) *)

\* signCookie("challenge", data, options): a tamper-evident cookie
signCookie(data) == [sig |-> "valid", data |-> data]

AbsentCookie == [sig |-> "absent", data |-> NoCookie]

\* decodeSignedCookie("challenge", reqCookies, options): the payload, or
\* nothing when the cookie is absent, expired or fails its signature check
decodeSignedCookie(c) == IF c.sig = "valid" THEN c.data ELSE NoCookie

----------------------------------------------------------------------------
(* Ceremony library (collaborator, @simplewebauthn/server): options *)

generateAuthenticationOptions(allowCredentials, n) ==
    [challenge |-> n, userID |-> None, userName |-> None, credentials |-> allowCredentials]

generateRegistrationOptions(userID, userName, excludeCredentials, n) ==
    [challenge |-> n, userID |-> userID, userName |-> userName,
     credentials |-> excludeCredentials]

----------------------------------------------------------------------------
(* Responses of an options request. issuedFor is no part of the response:  *)
(* it is the email the challenge issuer was called with, None when it was   *)
(* not called.                                                              *)

Resp200(options, action, cookie) ==
    [kind |-> "response", status |-> 200, error |-> None, action |-> action,
     options |-> options, cookies |-> <<cookie>>, issuedFor |-> None]

\* the response, with the email its options were issued for
For(resp, email) == [resp EXCEPT !.issuedFor = email]

Resp400(body) ==
    [kind |-> "response", status |-> 400, error |-> body, action |-> None,
     options |-> NoOptions, cookies |-> <<>>, issuedFor |-> None]

Thrown(name) ==
    [kind |-> "throw", status |-> 0, error |-> name, action |-> None,
     options |-> NoOptions, cookies |-> <<>>, issuedFor |-> None]

NoResponse ==
    [kind |-> "none", status |-> 0, error |-> None, action |-> None,
     options |-> NoOptions, cookies |-> <<>>, issuedFor |-> None]

----------------------------------------------------------------------------
(* Challenge issuer: lib/passkey/verify.ts 269-379 *)

\* getUserAndAuthenticators answering "no user" when no adapter is configured
getUserAndAuthenticatorsUnchecked(email) ==
    [throws |-> FALSE, authenticators |-> NoCredList,
     user |-> IF adapter /\ Truthy(email) THEN getUserByEmail(email) ELSE NoUser]

\* [throws, authenticators, user]; authenticators is undefined when the
\* user has no account with this provider
getUserAndAuthenticators(email) ==
    IF ~adapter
      THEN [throws |-> TRUE, authenticators |-> NoCredList, user |-> NoUser]
      ELSE
        LET user == IF Truthy(email) THEN getUserByEmail(email) ELSE NoUser
            linked == IF user # NoUser
                        THEN {a \in listLinkedAccounts(user.id) : a.provider = ProviderId}
                        ELSE {}
            account == IF linked # {} THEN CHOOSE a \in linked : TRUE ELSE NoAccount
            auths == IF account # NoAccount
                       THEN [defined |-> TRUE,
                             ids |-> {a.credentialID :
                                        a \in listAuthenticatorsByAccountId(account.providerAccountId)}]
                       ELSE NoCredList
        IN  [throws |-> FALSE, authenticators |-> auths, user |-> user]

authenticationOptions(email) ==
    LET ua == getUserAndAuthenticators(email)
    IN  [throws |-> ua.throws, email |-> email,
         options |-> IF ua.throws THEN NoOptions
                     ELSE generateAuthenticationOptions(ua.authenticators, issued + 1)]

registrationOptions(email) ==
    LET ua == getUserAndAuthenticators(email)
        userID == IF ua.user # NoUser THEN ua.user.id ELSE randomString(issued + 1)
        userName == IF ua.user # NoUser THEN ua.user.email ELSE email
    IN  [throws |-> ua.throws, email |-> email,
         options |-> IF ua.throws THEN NoOptions
                     ELSE generateRegistrationOptions(userID, userName,
                                                      ua.authenticators, issued + 1)]

----------------------------------------------------------------------------
(* lib/passkey/types.ts 48-86 *)

\* doRegister signing the challenge of the previous ceremony into the cookie
doRegisterStaleCookie(email) ==
    LET reg == registrationOptions(email)
        cookieData == [challenge |-> issued, providerAccountId |-> reg.options.userID]
    IN  IF reg.throws THEN Thrown("MissingAdapter")
        ELSE For(Resp200(reg.options, "register", signCookie(cookieData)), reg.email)

doRegister(email) ==
    LET reg == registrationOptions(email)
        cookieData == [challenge |-> reg.options.challenge,
                       providerAccountId |-> reg.options.userID]
    IN  IF reg.throws THEN Thrown("MissingAdapter")
        ELSE For(Resp200(reg.options, "register", signCookie(cookieData)), reg.email)

doAuthenticate(email) ==
    LET auth == authenticationOptions(email)
        cookieData == [challenge |-> auth.options.challenge, providerAccountId |-> None]
    IN  IF auth.throws THEN Thrown("MissingAdapter")
        ELSE For(Resp200(auth.options, "authenticate", signCookie(cookieData)),
                 auth.email)

\* adapter?.getUserByEmail(queryEmail), as a boolean
userExists(queryEmail) == adapter /\ getUserByEmail(queryEmail) # NoUser

\* the switch-based resolver registering for the session whatever the query email
passkeyOptionsSwitchAnyEmail(action, queryEmail) ==
    LET loggedIn == Truthy(sessionUserEmail)
        providedQueryEmail == Truthy(queryEmail)
        userWithEmailExists == providedQueryEmail /\ userExists(queryEmail)
        invalid == Resp400("Invalid action/email combination")
    IN  CASE action = "authenticate" ->
               IF ~loggedIn THEN doAuthenticate(queryEmail) ELSE invalid
          [] action = "register" ->
               IF (loggedIn \/ providedQueryEmail) /\ (loggedIn \/ ~userWithEmailExists)
                 THEN doRegister(IF sessionUserEmail # None THEN sessionUserEmail
                                 ELSE queryEmail)
                 ELSE invalid
          [] action = None ->
               IF ~loggedIn
                 THEN IF providedQueryEmail = userWithEmailExists
                        THEN doAuthenticate(queryEmail)
                        ELSE doRegister(queryEmail)
                 ELSE invalid
          [] OTHER -> invalid

\* lib/passkey/types.ts 96-159: the switch-based resolver
passkeyOptionsSwitch(action, queryEmail) ==
    LET loggedIn == Truthy(sessionUserEmail)
        providedQueryEmail == Truthy(queryEmail)
        userWithEmailExists == providedQueryEmail /\ userExists(queryEmail)
        invalid == Resp400("Invalid action/email combination")
    IN  CASE action = "authenticate" ->
               IF ~loggedIn THEN doAuthenticate(queryEmail) ELSE invalid
          [] action = "register" ->
               IF (loggedIn # providedQueryEmail) /\ ~userWithEmailExists
                 THEN doRegister(IF sessionUserEmail # None THEN sessionUserEmail
                                 ELSE queryEmail)
                 ELSE invalid
          [] action = None ->
               IF ~loggedIn
                 THEN IF providedQueryEmail = userWithEmailExists
                        THEN doAuthenticate(queryEmail)
                        ELSE doRegister(queryEmail)
                 ELSE invalid
          [] OTHER -> invalid

----------------------------------------------------------------------------
(* lib/routes/passkey-options.ts 19-117: the if/else resolver *)

\* resolveAction with the branches of the existence check swapped
resolveActionSwapped(queryEmail) ==
    IF ~Truthy(sessionUserEmail)
      THEN IF Truthy(queryEmail)
             THEN IF userExists(queryEmail) THEN "register" ELSE "authenticate"
             ELSE "email is required to register"
      ELSE IF Truthy(queryEmail)
             THEN "register"
             ELSE "email is required to register a new passkey"

\* lines 43-72: the action when none was given; an error body otherwise
resolveAction(queryEmail) ==
    IF ~Truthy(sessionUserEmail)
      THEN IF Truthy(queryEmail)
             THEN IF userExists(queryEmail) THEN "authenticate" ELSE "register"
             ELSE "email is required to register"
      ELSE IF Truthy(queryEmail)
             THEN "register"
             ELSE "email is required to register a new passkey"

\* line 39 preferring the query email to the session
effectiveEmailQueryFirst(queryEmail) ==
    IF queryEmail # None THEN queryEmail ELSE sessionUserEmail

\* line 39: sessionUserEmail ?? queryEmail
effectiveEmail(queryEmail) ==
    IF sessionUserEmail # None THEN sessionUserEmail ELSE queryEmail

\* passkeyOptions resolving an unknown action as if none had been given
passkeyOptionsAnyAction(action, queryEmail) ==
    LET email == effectiveEmail(queryEmail)
        selectedAction == IF action \notin {"authenticate", "register"}
                            THEN resolveAction(queryEmail) ELSE action
        auth == authenticationOptions(email)
        reg == registrationOptions(email)
    IN  CASE selectedAction \in {"email is required to register",
                                 "email is required to register a new passkey"}
               /\ action \notin {"authenticate", "register"} ->
               Resp400(selectedAction)
          [] selectedAction = "authenticate" ->
               IF auth.throws THEN Thrown("MissingAdapter")
               ELSE For(Resp200(auth.options, "authenticate",
                                signCookie([challenge |-> auth.options.challenge,
                                            providerAccountId |-> None])),
                        auth.email)
          [] selectedAction = "register" ->
               IF ~Truthy(email) THEN Resp400("email is required for registration")
               ELSE IF reg.throws THEN Thrown("MissingAdapter")
               ELSE For(Resp200(reg.options, "register",
                                signCookie([challenge |-> reg.options.challenge,
                                            providerAccountId |-> reg.options.userID])),
                        reg.email)
          [] OTHER -> Resp400("invalid action")

passkeyOptions(action, queryEmail) ==
    LET email == effectiveEmail(queryEmail)
        selectedAction == IF ~Truthy(action) THEN resolveAction(queryEmail) ELSE action
        auth == authenticationOptions(email)
        reg == registrationOptions(email)
    IN  CASE selectedAction \in {"email is required to register",
                                 "email is required to register a new passkey"}
               /\ ~Truthy(action) ->
               Resp400(selectedAction)
          [] selectedAction = "authenticate" ->
               IF auth.throws THEN Thrown("MissingAdapter")
               ELSE For(Resp200(auth.options, "authenticate",
                                signCookie([challenge |-> auth.options.challenge,
                                            providerAccountId |-> None])),
                        auth.email)
          [] selectedAction = "register" ->
               IF ~Truthy(email) THEN Resp400("email is required for registration")
               ELSE IF reg.throws THEN Thrown("MissingAdapter")
               ELSE For(Resp200(reg.options, "register",
                                signCookie([challenge |-> reg.options.challenge,
                                            providerAccountId |-> reg.options.userID])),
                        reg.email)
          [] OTHER -> Resp400("invalid action")

----------------------------------------------------------------------------
(* Client responses and request cookies *)

\* a value that is not an object with a string id
MalformedResponse ==
    [wellFormed |-> FALSE, id |-> None, challenge |-> 0, proof |-> "valid", counter |-> 0]

\* a ceremony response: the credential id, the challenge signed over, whether
\* the signature and the relaying-party data are good, the signature counter
Responses ==
    {MalformedResponse} \cup
    [wellFormed : {TRUE}, id : CredStrings, challenge : ResponseChallenges,
     proof : {"valid", "badSignature", "wrongOrigin"}, counter : Counters]

TamperedCookie == [sig |-> "invalid", data |-> [challenge |-> 1, providerAccountId |-> None]]

\* what a request can carry: nothing, a forged cookie, or any cookie issued
RequestCookies == {AbsentCookie, TamperedCookie} \cup jar

\* typeof email !== "string" holds of None only
VerifyEmails == Emails \cup {None}

----------------------------------------------------------------------------
(* Ceremony library (collaborator, @simplewebauthn/server): verification *)

LibThrows == [outcome |-> "throws", counter |-> 0, credentialID |-> 0]
LibNotVerified == [outcome |-> "notVerified", counter |-> 0, credentialID |-> 0]
LibVerified(counter, credentialID) ==
    [outcome |-> "verified", counter |-> counter, credentialID |-> credentialID]
LibNotCalled == [outcome |-> "notCalled", counter |-> 0, credentialID |-> 0]

\* verifyAuthenticationResponse: the outcomes the library can produce. It
\* throws on a challenge or relaying-party mismatch and reports a bad
\* signature as not verified. Whether it also throws on a signature counter
\* that did not advance is the library's choice (never when both are zero).
verifyAuthenticationResponse(response, authenticator, expectedChallenge) ==
    LET stale == /\ response.counter > 0 \/ authenticator.counter > 0
                 /\ response.counter <= authenticator.counter
    IN  IF response.challenge # expectedChallenge \/ response.proof = "wrongOrigin"
          THEN {LibThrows}
        ELSE (IF stale THEN {LibThrows} ELSE {}) \cup
             (IF response.proof = "badSignature"
                THEN {LibNotVerified}
                ELSE {LibVerified(response.counter, authenticator.credentialID)})

verifyRegistrationResponse(response, expectedChallenge) ==
    IF response.challenge # expectedChallenge \/ response.proof = "wrongOrigin"
      THEN LibThrows
    ELSE IF response.proof = "badSignature"
      THEN LibNotVerified
    ELSE LibVerified(response.counter, Base64Decode(response.id))

----------------------------------------------------------------------------
(* Outcomes of a verification request *)

\* kind "soft": a string was returned; "throw": an error was thrown;
\* "ok": {user, account[, authenticator]} was returned.
\* lib is what the ceremony library answered, upd what the adapter did with
\* the counter update, log the errors handed to logger.error.
Outcome(kind, msg, user, account, authenticator, lib, upd, log) ==
    [kind |-> kind, msg |-> msg, user |-> user, account |-> account,
     authenticator |-> authenticator, lib |-> lib, upd |-> upd, log |-> log]

SoftError(msg, lib, log) ==
    Outcome("soft", msg, NoUser, NoAccount, NoAuthenticator, lib, "notCalled", log)

NoResult == Outcome("none", None, NoUser, NoAccount, NoAuthenticator, LibNotCalled,
                    "notCalled", {})

\* adapter.updateAuthenticatorCounter(authenticator, newCounter): the adapter
\* writes it ("write"), fails ("throw"), or leaves the row alone ("ignore")
UpdateOutcomes == {"write", "throw", "ignore"}

----------------------------------------------------------------------------
(* Response verifier: lib/passkey/verify.ts 41-249. A configured adapter   *)
(* implements every method asked of it (assertAdapterImplementsMethods     *)
(* passes).                                                                *)

\* finishAuthentication answering a missing owner with a returned string
finishAuthenticationSoftOrphan(authenticator, verification, upd) ==
    LET log == IF upd = "throw" THEN {"AdapterError"} ELSE {}
        user == getUserByAccount(ProviderId, authenticator.providerAccountId)
        account == [userId |-> user.id, provider |-> ProviderId,
                    providerAccountId |-> authenticator.providerAccountId]
    IN  IF user = NoUser
          THEN Outcome("soft", "User not found.", NoUser, NoAccount,
                       NoAuthenticator, verification, upd, log)
          ELSE Outcome("ok", None, user, account, NoAuthenticator, verification, upd, log)

\* finishAuthentication letting the failure of the counter update escape
finishAuthenticationFatalUpdate(authenticator, verification, upd) ==
    LET user == getUserByAccount(ProviderId, authenticator.providerAccountId)
        account == [userId |-> user.id, provider |-> ProviderId,
                    providerAccountId |-> authenticator.providerAccountId]
    IN  IF upd = "throw"
          THEN Outcome("throw", "AdapterError", NoUser, NoAccount, NoAuthenticator,
                       verification, upd, {})
        ELSE IF user = NoUser
          THEN Outcome("throw", "WebAuthnVerificationError", NoUser, NoAccount,
                       NoAuthenticator, verification, upd, {})
          ELSE Outcome("ok", None, user, account, NoAuthenticator, verification, upd, {})

\* lines 114-152, after the library verified the response: the counter
\* update, then the lookup of the owning user
finishAuthentication(authenticator, verification, upd) ==
    LET log == IF upd = "throw" THEN {"AdapterError"} ELSE {}
        user == getUserByAccount(ProviderId, authenticator.providerAccountId)
        account == [userId |-> user.id, provider |-> ProviderId,
                    providerAccountId |-> authenticator.providerAccountId]
    IN  IF user = NoUser
          THEN Outcome("throw", "WebAuthnVerificationError", NoUser, NoAccount,
                       NoAuthenticator, verification, upd, log)
          ELSE Outcome("ok", None, user, account, NoAuthenticator, verification, upd, log)

\* verifyAuthentication updating the counter before it looks at `verified`
verifyAuthenticationEagerWrite(cookieIn, response) ==
    LET cookie == decodeSignedCookie(cookieIn)
        authenticator == getAuthenticator(Base64Decode(response.id))
        answers == verifyAuthenticationResponse(response, authenticator, cookie.challenge)
    IN  IF ~adapter
          THEN {Outcome("throw", "MissingAdapter", NoUser, NoAccount, NoAuthenticator,
                        LibNotCalled, "notCalled", {})}
        ELSE IF ~response.wellFormed
          THEN {SoftError("Invalid response.", LibNotCalled, {})}
        ELSE IF cookie = NoCookie
          THEN {SoftError("Missing challenge cookie.", LibNotCalled, {})}
        ELSE IF authenticator = NoAuthenticator
          THEN {SoftError("Authenticator not found.", LibNotCalled, {})}
        ELSE UNION {
               IF verification.outcome = "throws"
                 THEN {SoftError("WebAuthnVerificationError", verification,
                                 {"WebAuthnVerificationError"})}
               ELSE IF verification.outcome # "verified"
                 THEN {Outcome("soft", "Failed to verify response.", NoUser, NoAccount,
                               NoAuthenticator,
                               [verification EXCEPT !.counter = response.counter,
                                                    !.credentialID = authenticator.credentialID],
                               upd, IF upd = "throw" THEN {"AdapterError"} ELSE {}) :
                         upd \in UpdateOutcomes}
               ELSE {finishAuthentication(authenticator, verification, upd) :
                       upd \in UpdateOutcomes}
               : verification \in answers}

\* verifyAuthentication looking the authenticator up before it decodes the cookie
verifyAuthenticationLookupFirst(cookieIn, response) ==
    LET cookie == decodeSignedCookie(cookieIn)
        authenticator == getAuthenticator(Base64Decode(response.id))
        answers == verifyAuthenticationResponse(response, authenticator, cookie.challenge)
    IN  IF ~adapter
          THEN {Outcome("throw", "MissingAdapter", NoUser, NoAccount, NoAuthenticator,
                        LibNotCalled, "notCalled", {})}
        ELSE IF ~response.wellFormed
          THEN {SoftError("Invalid response.", LibNotCalled, {})}
        ELSE IF authenticator = NoAuthenticator
          THEN {SoftError("Authenticator not found.", LibNotCalled, {})}
        ELSE IF cookie = NoCookie
          THEN {SoftError("Missing challenge cookie.", LibNotCalled, {})}
        ELSE UNION {
               IF verification.outcome = "throws"
                 THEN {SoftError("WebAuthnVerificationError", verification,
                                 {"WebAuthnVerificationError"})}
               ELSE IF verification.outcome # "verified"
                 THEN {SoftError("Failed to verify response.", verification, {})}
               ELSE {finishAuthentication(authenticator, verification, upd) :
                       upd \in UpdateOutcomes}
               : verification \in answers}

\* the outcomes of one call, over the answers of the library and the adapter
verifyAuthentication(cookieIn, response) ==
    LET cookie == decodeSignedCookie(cookieIn)
        authenticator == getAuthenticator(Base64Decode(response.id))
        answers == verifyAuthenticationResponse(response, authenticator, cookie.challenge)
    IN  IF ~adapter
          THEN {Outcome("throw", "MissingAdapter", NoUser, NoAccount, NoAuthenticator,
                        LibNotCalled, "notCalled", {})}
        ELSE IF ~response.wellFormed
          THEN {SoftError("Invalid response.", LibNotCalled, {})}
        ELSE IF cookie = NoCookie
          THEN {SoftError("Missing challenge cookie.", LibNotCalled, {})}
        ELSE IF authenticator = NoAuthenticator
          THEN {SoftError("Authenticator not found.", LibNotCalled, {})}
        ELSE UNION {
               IF verification.outcome = "throws"
                 THEN {SoftError("WebAuthnVerificationError", verification,
                                 {"WebAuthnVerificationError"})}
               ELSE IF verification.outcome # "verified"
                 THEN {SoftError("Failed to verify response.", verification, {})}
               ELSE {finishAuthentication(authenticator, verification, upd) :
                       upd \in UpdateOutcomes}
               : verification \in answers}

\* verifyRegistration letting the exception of the library escape
verifyRegistrationRethrow(cookieIn, response, email) ==
    LET cookie == decodeSignedCookie(cookieIn)
        verification == verifyRegistrationResponse(response, cookie.challenge)
        user == [id |-> email, email |-> email, emailVerified |-> Null]
        account == [userId |-> user.id, provider |-> ProviderId,
                    providerAccountId |-> cookie.providerAccountId]
        authenticator == [credentialID |-> verification.credentialID,
                          providerAccountId |-> cookie.providerAccountId,
                          counter |-> verification.counter]
    IN  IF email = None
          THEN SoftError("Email is required for registration.", LibNotCalled, {})
        ELSE IF ~response.wellFormed
          THEN SoftError("Invalid response.", LibNotCalled, {})
        ELSE IF cookie = NoCookie
          THEN SoftError("Missing challenge cookie.", LibNotCalled, {})
        ELSE IF cookie.providerAccountId = None
          THEN SoftError("Missing providerAccountId from challenge cookie.",
                         LibNotCalled, {})
        ELSE IF verification.outcome = "throws"
          THEN Outcome("throw", "WebAuthnVerificationError", NoUser, NoAccount,
                       NoAuthenticator, verification, "notCalled", {})
        ELSE IF verification.outcome # "verified"
          THEN SoftError("Failed to verify response.", verification, {})
        ELSE Outcome("ok", None, user, account, authenticator, verification,
                     "notCalled", {})

\* verifyRegistration accepting a cookie without a providerAccountId
verifyRegistrationAnyCookie(cookieIn, response, email) ==
    LET cookie == decodeSignedCookie(cookieIn)
        verification == verifyRegistrationResponse(response, cookie.challenge)
        user == [id |-> email, email |-> email, emailVerified |-> Null]
        account == [userId |-> user.id, provider |-> ProviderId,
                    providerAccountId |-> cookie.providerAccountId]
        authenticator == [credentialID |-> verification.credentialID,
                          providerAccountId |-> cookie.providerAccountId,
                          counter |-> verification.counter]
    IN  IF email = None
          THEN SoftError("Email is required for registration.", LibNotCalled, {})
        ELSE IF ~response.wellFormed
          THEN SoftError("Invalid response.", LibNotCalled, {})
        ELSE IF cookie = NoCookie
          THEN SoftError("Missing challenge cookie.", LibNotCalled, {})
        ELSE IF verification.outcome = "throws"
          THEN SoftError("WebAuthnVerificationError", verification,
                         {"WebAuthnVerificationError"})
        ELSE IF verification.outcome # "verified"
          THEN SoftError("Failed to verify response.", verification, {})
        ELSE Outcome("ok", None, user, account, authenticator, verification,
                     "notCalled", {})

\* verifyRegistration naming the account after the user, not after the cookie
verifyRegistrationOwnAccountId(cookieIn, response, email) ==
    LET cookie == decodeSignedCookie(cookieIn)
        verification == verifyRegistrationResponse(response, cookie.challenge)
        user == [id |-> email, email |-> email, emailVerified |-> Null]
        account == [userId |-> user.id, provider |-> ProviderId,
                    providerAccountId |-> user.id]
        authenticator == [credentialID |-> verification.credentialID,
                          providerAccountId |-> cookie.providerAccountId,
                          counter |-> verification.counter]
    IN  IF email = None
          THEN SoftError("Email is required for registration.", LibNotCalled, {})
        ELSE IF ~response.wellFormed
          THEN SoftError("Invalid response.", LibNotCalled, {})
        ELSE IF cookie = NoCookie
          THEN SoftError("Missing challenge cookie.", LibNotCalled, {})
        ELSE IF cookie.providerAccountId = None
          THEN SoftError("Missing providerAccountId from challenge cookie.",
                         LibNotCalled, {})
        ELSE IF verification.outcome = "throws"
          THEN SoftError("WebAuthnVerificationError", verification,
                         {"WebAuthnVerificationError"})
        ELSE IF verification.outcome # "verified"
          THEN SoftError("Failed to verify response.", verification, {})
        ELSE Outcome("ok", None, user, account, authenticator, verification,
                     "notCalled", {})

verifyRegistration(cookieIn, response, email) ==
    LET cookie == decodeSignedCookie(cookieIn)
        verification == verifyRegistrationResponse(response, cookie.challenge)
        user == [id |-> email, email |-> email, emailVerified |-> Null]
        account == [userId |-> user.id, provider |-> ProviderId,
                    providerAccountId |-> cookie.providerAccountId]
        authenticator == [credentialID |-> verification.credentialID,
                          providerAccountId |-> cookie.providerAccountId,
                          counter |-> verification.counter]
    IN  IF email = None
          THEN SoftError("Email is required for registration.", LibNotCalled, {})
        ELSE IF ~response.wellFormed
          THEN SoftError("Invalid response.", LibNotCalled, {})
        ELSE IF cookie = NoCookie
          THEN SoftError("Missing challenge cookie.", LibNotCalled, {})
        ELSE IF cookie.providerAccountId = None
          THEN SoftError("Missing providerAccountId from challenge cookie.",
                         LibNotCalled, {})
        ELSE IF verification.outcome = "throws"
          THEN SoftError("WebAuthnVerificationError", verification,
                         {"WebAuthnVerificationError"})
        ELSE IF verification.outcome # "verified"
          THEN SoftError("Failed to verify response.", verification, {})
        ELSE Outcome("ok", None, user, account, authenticator, verification,
                     "notCalled", {})

----------------------------------------------------------------------------
(* The last request served *)

NoLast ==
    [op |-> "none", impl |-> None, action |-> None, queryEmail |-> None,
     resp |-> NoResponse, cookie |-> AbsentCookie, response |-> MalformedResponse,
     email |-> None, result |-> NoResult, before |-> {}, repeat |-> FALSE,
     cookieFor |-> None]

OptionsLast(impl, action, queryEmail, resp) ==
    [NoLast EXCEPT !.op = "options", !.impl = impl, !.action = action,
                   !.queryEmail = queryEmail, !.resp = resp]

\* before: the authenticator rows when the request arrived; repeat: the
\* request before this one was the same verification request, and succeeded;
\* cookieFor: the email the cookie was issued for, when the request before
\* this one is the options request that issued it
VerifyLast(op, cookie, response, email, result) ==
    [NoLast EXCEPT !.op = op, !.cookie = cookie, !.response = response,
                   !.email = email, !.result = result, !.before = authenticators,
                   !.repeat = /\ last.op = op
                              /\ last.cookie = cookie
                              /\ last.response = response
                              /\ last.email = email
                              /\ last.result.kind = "ok",
                   !.cookieFor = IF /\ last.op = "options"
                                    /\ last.resp.status = 200
                                    /\ last.resp.cookies = <<cookie>>
                                   THEN last.resp.issuedFor
                                   ELSE None]

EnvLast(op) == [NoLast EXCEPT !.op = op]

----------------------------------------------------------------------------
(* verifyAuthentication calls in flight. Every await of the function is a   *)
(* point where another call can run; a call holds its locals between them.  *)

Requests == {1, 2}

\* pc: the await the call stands before ("idle": not started, "done":
\* returned or thrown); during: the calls in flight when this one started
Call(pc, response, expectedChallenge, authenticator, verification, upd, result, during) ==
    [pc |-> pc, response |-> response, expectedChallenge |-> expectedChallenge,
     authenticator |-> authenticator, verification |-> verification, upd |-> upd,
     result |-> result, during |-> during]

Idle == Call("idle", MalformedResponse, 0, NoAuthenticator, LibNotCalled, "notCalled",
             NoResult, {})

\* the call returned or threw before it read an authenticator
Returned(c, result) ==
    [c EXCEPT !.pc = "done", !.result = result, !.response = MalformedResponse,
              !.expectedChallenge = 0]

----------------------------------------------------------------------------
(* Initial states: a deployment without an adapter, or with one whose        *)
(* storage holds what earlier registrations left there: some of the emails   *)
(* registered (a user and its passkey account), and each credential either   *)
(* unknown or stored for the account of an email, with some counter. A       *)
(* credential stored for an email that is not registered is an orphan.      *)

UserOf(e) == [id |-> e, email |-> e]
AccountIdOf(e) == "acct-" \o e
AccountOf(e) == [userId |-> e, provider |-> ProviderId, providerAccountId |-> AccountIdOf(e)]

Unregistered == [owner |-> None, counter |-> 0]
Ownerships == {Unregistered} \cup [owner : Emails, counter : Counters]

Init ==
    /\ adapter \in BOOLEAN
    /\ sessionUserEmail = None
    /\ \E registered \in SUBSET Emails, own \in [CredBytes -> Ownerships] :
         /\ ~adapter => registered = {} /\ own = [c \in CredBytes |-> Unregistered]
         /\ users = {UserOf(e) : e \in registered}
         /\ accounts = {AccountOf(e) : e \in registered}
         /\ authenticators =
              {[credentialID |-> c, providerAccountId |-> AccountIdOf(own[c].owner),
                counter |-> own[c].counter] : c \in {c \in CredBytes : own[c].owner # None}}
    /\ issued = 0
    /\ jar = {}
    /\ last = NoLast
    /\ inflight = [r \in Requests |-> Idle]

----------------------------------------------------------------------------
(* Requests *)

\* an options request served by one of the two resolvers
Serve(impl, resp, action, queryEmail) ==
    /\ resp.status = 200 => issued < MaxIssued
    /\ last' = OptionsLast(impl, action, queryEmail, resp)
    /\ issued' = IF resp.status = 200 THEN issued + 1 ELSE issued
    /\ jar' = jar \cup {resp.cookies[i] : i \in 1..Len(resp.cookies)}
    /\ UNCHANGED <<adapter, sessionUserEmail, users, accounts, authenticators, inflight>>

PasskeyOptionsRoute ==
    \E action \in Actions, queryEmail \in QueryEmails :
        Serve("route", passkeyOptions(action, queryEmail), action, queryEmail)

PasskeyOptionsSwitch ==
    \E action \in Actions, queryEmail \in QueryEmails :
        Serve("switch", passkeyOptionsSwitch(action, queryEmail), action, queryEmail)

\* adapter.updateAuthenticatorCounter, when the adapter writes
updateAuthenticatorCounter(credentialID, newCounter) ==
    {IF a.credentialID = credentialID THEN [a EXCEPT !.counter = newCounter] ELSE a :
       a \in authenticators}

VerifyAuthentication ==
    \E cookie \in RequestCookies, response \in Responses :
        \E result \in verifyAuthentication(cookie, response) :
            /\ last' = VerifyLast("verifyAuthentication", cookie, response, None, result)
            /\ authenticators' =
                 IF result.upd = "write"
                   THEN updateAuthenticatorCounter(result.lib.credentialID,
                                                   result.lib.counter)
                   ELSE authenticators
            /\ UNCHANGED <<adapter, sessionUserEmail, users, accounts, issued, jar,
                           inflight>>

VerifyRegistration ==
    \E cookie \in RequestCookies, response \in Responses, email \in VerifyEmails :
        /\ last' = VerifyLast("verifyRegistration", cookie, response, email,
                              verifyRegistration(cookie, response, email))
        /\ UNCHANGED <<adapter, sessionUserEmail, users, accounts, authenticators,
                       issued, jar, inflight>>

----------------------------------------------------------------------------
(* Environment: the session of the caller *)

Login ==
    \E e \in Emails :
        /\ sessionUserEmail = None
        /\ sessionUserEmail' = e
        /\ last' = EnvLast("login")
        /\ UNCHANGED <<adapter, users, accounts, authenticators, issued, jar, inflight>>

Logout ==
    /\ sessionUserEmail # None
    /\ sessionUserEmail' = None
    /\ last' = EnvLast("logout")
    /\ UNCHANGED <<adapter, users, accounts, authenticators, issued, jar, inflight>>

----------------------------------------------------------------------------
(* verifyAuthentication, one await at a time (verify.ts 41-152), over an    *)
(* adapter whose updateAuthenticatorCounter compares and writes atomically  *)

\* an options request for an authentication ceremony
AuthenticateOptions ==
    \E queryEmail \in QueryEmails :
        Serve("route", passkeyOptions("authenticate", queryEmail), "authenticate",
              queryEmail)

Step(r, call) ==
    /\ inflight' = [inflight EXCEPT ![r] = call]
    /\ last' = EnvLast("step")

\* lines 46-79: the adapter, the shape of the response, the challenge cookie
StartAuthentication(r) ==
    \E cookieIn \in RequestCookies, response \in Responses :
        LET cookie == decodeSignedCookie(cookieIn)
            c == [inflight[r] EXCEPT
                    !.during = {q \in Requests : inflight[q].pc \notin {"idle", "done"}}]
        IN  /\ inflight[r].pc = "idle"
            /\ Step(r, IF ~adapter
                         THEN Returned(c, Outcome("throw", "MissingAdapter", NoUser,
                                                  NoAccount, NoAuthenticator,
                                                  LibNotCalled, "notCalled", {}))
                       ELSE IF ~response.wellFormed
                         THEN Returned(c, SoftError("Invalid response.", LibNotCalled, {}))
                       ELSE IF cookie = NoCookie
                         THEN Returned(c, SoftError("Missing challenge cookie.",
                                                    LibNotCalled, {}))
                       ELSE [c EXCEPT !.pc = "getAuthenticator", !.response = response,
                                      !.expectedChallenge = cookie.challenge])
            /\ UNCHANGED <<adapter, sessionUserEmail, users, accounts, authenticators,
                           issued, jar>>

\* lines 81-87: await adapter.getAuthenticator(uintID)
GetAuthenticator(r) ==
    LET c == inflight[r]
        authenticator == getAuthenticator(Base64Decode(c.response.id))
    IN  /\ c.pc = "getAuthenticator"
        /\ Step(r, IF authenticator = NoAuthenticator
                     THEN Returned(c, SoftError("Authenticator not found.",
                                                LibNotCalled, {}))
                     ELSE [c EXCEPT !.pc = "verifyAuthenticationResponse",
                                    !.authenticator = authenticator])
        /\ UNCHANGED <<adapter, sessionUserEmail, users, accounts, authenticators,
                       issued, jar>>

\* lines 89-112: await verifyAuthenticationResponse(...) over the
\* authenticator read before
VerifyAuthenticationResponse(r) ==
    LET c == inflight[r]
    IN  /\ c.pc = "verifyAuthenticationResponse"
        /\ \E verification \in verifyAuthenticationResponse(c.response, c.authenticator,
                                                           c.expectedChallenge) :
             Step(r, IF verification.outcome = "throws"
                       THEN Returned(c, SoftError("WebAuthnVerificationError",
                                                  verification,
                                                  {"WebAuthnVerificationError"}))
                     ELSE IF verification.outcome # "verified"
                       THEN Returned(c, SoftError("Failed to verify response.",
                                                  verification, {}))
                     ELSE [c EXCEPT !.pc = "updateAuthenticatorCounter",
                                    !.verification = verification,
                                    !.response = MalformedResponse,
                                    !.expectedChallenge = 0])
        /\ UNCHANGED <<adapter, sessionUserEmail, users, accounts, authenticators,
                       issued, jar>>

\* the adapter accepts newCounter only above the counter it stores, in one
\* step with the write
AcceptsCounter(credentialID, newCounter) ==
    \E a \in authenticators : a.credentialID = credentialID /\ a.counter < newCounter

\* lines 114-120: await adapter.updateAuthenticatorCounter(authenticator,
\* newCounter); a rejection is thrown by the adapter and caught
UpdateAuthenticatorCounter(r) ==
    LET c == inflight[r]
        accepted == AcceptsCounter(c.authenticator.credentialID, c.verification.counter)
    IN  /\ c.pc = "updateAuthenticatorCounter"
        /\ authenticators' =
             IF accepted
               THEN updateAuthenticatorCounter(c.authenticator.credentialID,
                                               c.verification.counter)
               ELSE authenticators
        /\ Step(r, [c EXCEPT !.pc = "getUserByAccount",
                             !.upd = IF accepted THEN "write" ELSE "throw"])
        /\ UNCHANGED <<adapter, sessionUserEmail, users, accounts, issued, jar>>

\* lines 122-152: await adapter.getUserByAccount(...), then throw or return
GetUserByAccount(r) ==
    LET c == inflight[r]
    IN  /\ c.pc = "getUserByAccount"
        /\ Step(r, [c EXCEPT !.pc = "done",
                             !.result = finishAuthentication(c.authenticator,
                                                             c.verification, c.upd)])
        /\ UNCHANGED <<adapter, sessionUserEmail, users, accounts, authenticators,
                       issued, jar>>

----------------------------------------------------------------------------
(* Specifications *)

\* options requests under a changing session
NextOptions ==
    \/ PasskeyOptionsRoute
    \/ PasskeyOptionsSwitch
    \/ Login
    \/ Logout

SpecOptions == Init /\ [][NextOptions]_vars

\* ceremonies of callers who are not logged in: options, then verification
NextVerify ==
    \/ PasskeyOptionsRoute
    \/ PasskeyOptionsSwitch
    \/ VerifyAuthentication
    \/ VerifyRegistration

SpecVerify == Init /\ [][NextVerify]_vars

\* every request. The verifiers never read the session and the resolvers
\* never read a signature counter, so SpecOptions and SpecVerify are the two
\* halves of Spec that the properties below are checked under.
Next ==
    \/ PasskeyOptionsRoute
    \/ PasskeyOptionsSwitch
    \/ VerifyAuthentication
    \/ VerifyRegistration
    \/ Login
    \/ Logout

Spec == Init /\ [][Next]_vars

\* every request, in a deployment configured without an adapter
InitNoAdapter == Init /\ ~adapter

SpecNoAdapter == InitNoAdapter /\ [][Next]_vars

\* authentication ceremonies whose verifyAuthentication calls interleave
NextRace ==
    \/ AuthenticateOptions
    \/ \E r \in Requests : StartAuthentication(r)
    \/ \E r \in Requests : GetAuthenticator(r)
    \/ \E r \in Requests : VerifyAuthenticationResponse(r)
    \/ \E r \in Requests : UpdateAuthenticatorCounter(r)
    \/ \E r \in Requests : GetUserByAccount(r)

SpecRace == Init /\ [][NextRace]_vars

----------------------------------------------------------------------------
(* Facts about the request in `last`. An options request changes neither    *)
(* the session nor the storage, so both are those the request was served    *)
(* under.                                                                   *)

OptionsServed == last.op = "options" /\ last.resp.kind # "none"
loggedIn == Truthy(sessionUserEmail)
emailGiven == Truthy(last.queryEmail)
emailExists == emailGiven /\ userExists(last.queryEmail)

\* a 400-equivalent: an error body, no options, no challenge cookie
RefusedOptions ==
    /\ last.resp.kind = "response"
    /\ last.resp.status = 400
    /\ last.resp.options = NoOptions
    /\ last.resp.cookies = <<>>

\* a 200 with options for `action`
IssuedOptions(action) ==
    /\ last.resp.kind = "response"
    /\ last.resp.status = 200
    /\ last.resp.action = action
    /\ last.resp.options # NoOptions

Verified == last.op \in {"verifyAuthentication", "verifyRegistration"}

\* the counter stored for the credential of the response when it arrived
StoredCounter ==
    (CHOOSE a \in last.before : a.credentialID = Base64Decode(last.response.id)).counter

\* the authenticator stored for the credential of the response when it
\* arrived, and the user owning its account
LastAuthenticator ==
    CHOOSE a \in last.before : a.credentialID = Base64Decode(last.response.id)

LastOwner == getUserByAccount(ProviderId, LastAuthenticator.providerAccountId)

\* the ceremony library answered verified = true to verifyAuthentication
AuthenticationVerified ==
    last.op = "verifyAuthentication" /\ last.result.lib.outcome = "verified"

----------------------------------------------------------------------------
(* Claims *)

\* C1: verifyAuthentication does not return {user, account} for a response
\* whose library-reported newCounter is not strictly greater than the counter
\* stored for that authenticator.
C1_RejectsNonIncreasingCounter ==
    (last.op = "verifyAuthentication" /\ last.result.kind = "ok")
        => last.result.lib.counter > StoredCounter

\* C2: a challenge cookie is consumed once: the same cookie and the same
\* response, submitted again after a successful verification, do not yield a
\* success payload.
C2_SecondSubmissionFails ==
    (Verified /\ last.repeat) => last.result.kind # "ok"

\* C3: every 200 response of an options request carries exactly one signed
\* challenge cookie whose challenge is that of body.options; for register its
\* providerAccountId is body.options.user.id, for authenticate it has none;
\* every 400 response carries no cookie.
C3_CookieMatchesOptions ==
    (OptionsServed /\ last.resp.kind = "response") =>
        /\ last.resp.status \in {200, 400}
        /\ last.resp.status = 400 => last.resp.cookies = <<>>
        /\ last.resp.status = 200 =>
             /\ Len(last.resp.cookies) = 1
             /\ last.resp.cookies[1].sig = "valid"
             /\ last.resp.cookies[1].data.challenge = last.resp.options.challenge
             /\ last.resp.action \in {"register", "authenticate"}
             /\ last.resp.action = "register" =>
                  /\ last.resp.cookies[1].data.providerAccountId = last.resp.options.userID
                  /\ last.resp.options.userID # None
             /\ last.resp.action = "authenticate" =>
                  last.resp.cookies[1].data.providerAccountId = None

C3_Witness ==
    /\ OptionsServed
    /\ last.impl = "switch"
    /\ last.resp.status = 200
    /\ last.resp.action = "register"
    /\ last.resp.cookies[1].data.providerAccountId = randomString(1)

\* C4: neither verifier writes to the adapter before verification succeeded:
\* verifyRegistration never writes, verifyAuthentication calls
\* updateAuthenticatorCounter only after the library answered verified, and on
\* every soft-error outcome the stored authenticators are what they were.
C4_NoWriteBeforeVerified ==
    Verified =>
        /\ last.op = "verifyRegistration" =>
             last.result.upd = "notCalled" /\ authenticators = last.before
        /\ last.result.upd # "notCalled" => last.result.lib.outcome = "verified"
        /\ last.result.kind = "soft" =>
             last.result.upd = "notCalled" /\ authenticators = last.before

C4_Witness ==
    /\ last.op = "verifyAuthentication"
    /\ last.response.proof = "wrongOrigin"
    /\ last.result.kind = "soft"
    /\ last.result.lib.outcome = "throws"
    /\ authenticators = last.before
    /\ authenticators # {}

\* C5: not logged in, a query email that belongs to a registered user, explicit
\* action "register": both resolvers return an error and issue no options and
\* no cookie.
C5_NoRegisterOverExistingAccount ==
    (OptionsServed /\ adapter /\ ~loggedIn /\ emailExists /\ last.action = "register")
        => RefusedOptions

\* C6: not logged in, a query email no user has, explicit action
\* "authenticate": both resolvers return an error and issue no options and no
\* cookie.
C6_NoAuthenticateWithoutAccount ==
    (OptionsServed /\ adapter /\ ~loggedIn /\ emailGiven /\ ~emailExists
       /\ last.action = "authenticate")
        => RefusedOptions

\* C7: explicit action "authenticate" from a logged-in caller: both resolvers
\* return an error and issue no options and no cookie, with or without a query
\* email.
C7_NoAuthenticateWhileLoggedIn ==
    (OptionsServed /\ adapter /\ loggedIn /\ last.action = "authenticate")
        => RefusedOptions

\* C8: a logged-in caller who gives a query email, with the action absent or
\* "register": both resolvers return status 200 with action "register" and
\* registration options.
C8_LoggedInResolvesToRegister ==
    (OptionsServed /\ adapter /\ loggedIn /\ emailGiven
       /\ last.action \in {None, "register"})
        => IssuedOptions("register")

C10_EmailRequiredToRegister ==
    (OptionsServed /\ adapter /\ ~loggedIn /\ ~emailGiven /\ last.action = None)
        => RefusedOptions /\ last.resp.error = "email is required to register"

\* C11: logged in, no query email, no explicit action: both resolvers return
\* the error "email is required to register a new passkey" and issue no
\* options and no cookie.
C11_EmailRequiredForNewPasskey ==
    (OptionsServed /\ loggedIn /\ ~emailGiven /\ last.action = None)
        => RefusedOptions /\ last.resp.error = "email is required to register a new passkey"

\* C12: when the library verified the response and getUserByAccount finds no
\* user for the authenticator's account, verifyAuthentication throws: it
\* returns neither a soft-error string nor {user, account}.
C12_OrphanAuthenticatorThrows ==
    (AuthenticationVerified /\ LastOwner = NoUser) =>
        /\ last.result.kind = "throw"
        /\ last.result.msg = "WebAuthnVerificationError"
        /\ last.result.user = NoUser /\ last.result.account = NoAccount

C12_Witness ==
    /\ AuthenticationVerified
    /\ LastOwner = NoUser
    /\ LastAuthenticator.providerAccountId = AccountIdOf("a@x.com")
    /\ last.result.kind = "throw"

\* C13: in verifyAuthentication and in verifyRegistration an exception thrown
\* by the library's verification call is logged and becomes a returned
\* soft-error string: the verifier does not throw and returns no success
\* payload.
C13_LibraryExceptionIsSoft ==
    (Verified /\ last.result.lib.outcome = "throws") =>
        /\ last.result.kind = "soft"
        /\ last.result.msg = "WebAuthnVerificationError"
        /\ "WebAuthnVerificationError" \in last.result.log
        /\ last.result.user = NoUser
        /\ last.result.account = NoAccount
        /\ last.result.authenticator = NoAuthenticator

C13_Witness ==
    /\ last.op = "verifyRegistration"
    /\ last.email \in Emails
    /\ last.cookie.sig = "valid"
    /\ last.response.challenge # last.cookie.data.challenge
    /\ last.result.lib.outcome = "throws"
    /\ last.result.kind = "soft"

\* C14: when the library answered verified = true and
\* updateAuthenticatorCounter then throws, verifyAuthentication logs the
\* failure and still returns {user, account} for the user owning the
\* authenticator's account; the stored counter is what it was.
C14_CounterFailureIsNotFatal ==
    (AuthenticationVerified /\ last.result.upd = "throw" /\ LastOwner # NoUser) =>
        /\ last.result.kind = "ok"
        /\ "AdapterError" \in last.result.log
        /\ last.result.user = LastOwner
        /\ last.result.account =
             [userId |-> LastOwner.id, provider |-> ProviderId,
              providerAccountId |-> LastAuthenticator.providerAccountId]
        /\ authenticators = last.before

C14_Witness ==
    /\ AuthenticationVerified
    /\ last.result.upd = "throw"
    /\ last.result.kind = "ok"
    /\ last.result.user = UserOf("b@x.com")
    /\ last.result.lib.counter > StoredCounter

\* two calls overlapped: one started while the other was in flight
Concurrent(r1, r2) == r1 \in inflight[r2].during \/ r2 \in inflight[r1].during

\* the call returned {user, account}
Succeeded(r) == inflight[r].pc = "done" /\ inflight[r].result.kind = "ok"

\* C15: over an adapter that checks "strictly greater" atomically with the
\* write, two concurrent verifyAuthentication calls for the same credential
\* whose responses report the same newCounter, each above the counter its
\* call read, do not both return a success payload.
C15_ClonedCredentialRace ==
    \A r1, r2 \in Requests :
        (/\ r1 # r2
         /\ Concurrent(r1, r2)
         /\ inflight[r1].verification.outcome = "verified"
         /\ inflight[r2].verification.outcome = "verified"
         /\ inflight[r1].authenticator.credentialID = inflight[r2].authenticator.credentialID
         /\ inflight[r1].verification.counter = inflight[r2].verification.counter
         /\ inflight[r1].verification.counter > inflight[r1].authenticator.counter
         /\ inflight[r2].verification.counter > inflight[r2].authenticator.counter)
            => ~(Succeeded(r1) /\ Succeeded(r2))

\* the request threw MissingAdapter
OptionsThrewMissingAdapter == last.resp = Thrown("MissingAdapter")

AuthenticationThrewMissingAdapter ==
    /\ last.result.kind = "throw"
    /\ last.result.msg = "MissingAdapter"
    /\ last.result.lib = LibNotCalled

\* C16 as stated: with no adapter configured, every options request of
\* either resolver, whatever the action, the email and the session, and every
\* verifyAuthentication call throws MissingAdapter; none returns a response
\* or a soft-error string.
C16_MissingAdapterAlwaysThrows ==
    ~adapter =>
        /\ OptionsServed => OptionsThrewMissingAdapter
        /\ last.op = "verifyAuthentication" => AuthenticationThrewMissingAdapter

\* C16 amended: with no adapter configured, every verifyAuthentication call
\* throws MissingAdapter, and no options request issues options or a cookie:
\* it throws MissingAdapter when it reaches the challenge issuer, and is
\* answered 400 when the resolver refuses it before that. An explicit
\* "authenticate" from a caller who is not logged in always throws.
C16_MissingAdapterThrowsAtIssuer ==
    ~adapter =>
        /\ OptionsServed => OptionsThrewMissingAdapter \/ RefusedOptions
        /\ (OptionsServed /\ last.action = "authenticate" /\ ~loggedIn)
             => OptionsThrewMissingAdapter
        /\ last.op = "verifyAuthentication" => AuthenticationThrewMissingAdapter

C16_Witness ==
    /\ ~adapter
    /\ OptionsServed
    /\ loggedIn
    /\ last.impl = "switch"
    /\ last.action = "register"
    /\ ~emailGiven
    /\ OptionsThrewMissingAdapter

\* the request carried no challenge cookie that decodes
CookieMissing == decodeSignedCookie(last.cookie) = NoCookie

\* no authenticator was stored for the credential id of the response
CredentialUnknown ==
    ~\E a \in last.before : a.credentialID = Base64Decode(last.response.id)

\* a soft error returned before the library or the counter update was called
RejectedEarly(msg) ==
    last.result = SoftError(msg, LibNotCalled, {})

\* C17: with an adapter, verifyAuthentication checks its inputs in order: a
\* malformed response yields "Invalid response." whatever the cookie; a
\* well-formed response without a valid challenge cookie yields "Missing
\* challenge cookie." whether or not its credential is known; an unknown
\* credential id yields "Authenticator not found."; in all three the library
\* is not called.
C17_InputChecksInOrder ==
    (last.op = "verifyAuthentication" /\ adapter) =>
        /\ ~last.response.wellFormed => RejectedEarly("Invalid response.")
        /\ (last.response.wellFormed /\ CookieMissing)
             => RejectedEarly("Missing challenge cookie.")
        /\ (last.response.wellFormed /\ ~CookieMissing /\ CredentialUnknown)
             => RejectedEarly("Authenticator not found.")

C17_Witness ==
    /\ last.op = "verifyAuthentication" /\ adapter
    /\ last.response.wellFormed
    /\ last.cookie = TamperedCookie
    /\ CredentialUnknown
    /\ jar # {}
    /\ RejectedEarly("Missing challenge cookie.")

\* the cookie of the request was issued by an authentication options request
AuthenticationCookie ==
    last.cookie.sig = "valid" /\ last.cookie.data.providerAccountId = None

\* C18: verifyRegistration returns a soft error without calling the library
\* when the email is not a string (whatever the rest), when the response is
\* malformed, when the challenge cookie is missing or invalid, and when the
\* decoded cookie has no providerAccountId; a cookie issued by an
\* authentication options request is never accepted.
C18_RegistrationInputChecks ==
    last.op = "verifyRegistration" =>
        /\ last.email = None => RejectedEarly("Email is required for registration.")
        /\ (last.email # None /\ ~last.response.wellFormed)
             => RejectedEarly("Invalid response.")
        /\ (last.email # None /\ last.response.wellFormed /\ CookieMissing)
             => RejectedEarly("Missing challenge cookie.")
        /\ (last.email # None /\ last.response.wellFormed /\ ~CookieMissing
              /\ decodeSignedCookie(last.cookie).providerAccountId = None)
             => RejectedEarly("Missing providerAccountId from challenge cookie.")
        /\ AuthenticationCookie =>
             last.result.kind = "soft" /\ last.result.lib = LibNotCalled

C18_Witness ==
    /\ last.op = "verifyRegistration"
    /\ last.email \in Emails
    /\ last.response.wellFormed
    /\ last.response.proof = "valid"
    /\ AuthenticationCookie
    /\ last.response.challenge = last.cookie.data.challenge
    /\ RejectedEarly("Missing providerAccountId from challenge cookie.")

\* C19: every successful verifyRegistration returns the user {id: email,
\* email, emailVerified: null}, an account {userId: email, provider:
\* "passkey"} and an authenticator; the providerAccountId of both is the
\* one carried in the challenge cookie, and the counter of the authenticator
\* is the one the library reported.
C19_RegistrationPayload ==
    (last.op = "verifyRegistration" /\ last.result.kind = "ok") =>
        /\ last.result.lib.outcome = "verified"
        /\ last.result.user =
             [id |-> last.email, email |-> last.email, emailVerified |-> Null]
        /\ last.result.account.userId = last.email
        /\ last.result.account.provider = "passkey"
        /\ decodeSignedCookie(last.cookie).providerAccountId # None
        /\ last.result.account.providerAccountId =
             decodeSignedCookie(last.cookie).providerAccountId
        /\ last.result.authenticator.providerAccountId =
             decodeSignedCookie(last.cookie).providerAccountId
        /\ last.result.authenticator.counter = last.result.lib.counter
        /\ last.result.authenticator.credentialID = last.result.lib.credentialID

C19_Witness ==
    /\ last.op = "verifyRegistration"
    /\ last.result.kind = "ok"
    /\ last.email = "b@x.com"
    /\ last.result.account.providerAccountId = randomString(1)
    /\ last.result.authenticator.counter = MaxCounter

\* sessionUserEmail ?? queryEmail, for the request in `last`
EffectiveEmail == IF loggedIn THEN sessionUserEmail ELSE last.queryEmail

\* the user whose id and authenticators the issued options carry
OptionsAreFor(email) ==
    LET ua == getUserAndAuthenticators(email)
    IN  /\ last.resp.options.credentials = ua.authenticators
        /\ last.resp.action = "register" =>
             /\ last.resp.options.userName =
                  (IF ua.user # NoUser THEN ua.user.email ELSE email)
             /\ ua.user # NoUser => last.resp.options.userID = ua.user.id
             /\ ua.user = NoUser => last.resp.options.userID = randomString(issued)

\* C20: whenever an options request issues options, the challenge issuer
\* was called with the session email when the caller is logged in and with
\* the query email otherwise, and the user id and the credential list of the
\* options are those of that email: a logged-in caller's query email selects
\* neither.
C20_IssuedForEffectiveEmail ==
    (OptionsServed /\ last.resp.status = 200) =>
        /\ last.resp.issuedFor = EffectiveEmail
        /\ OptionsAreFor(EffectiveEmail)

C20_Witness ==
    /\ OptionsServed
    /\ last.resp.status = 200
    /\ sessionUserEmail = "a@x.com"
    /\ last.queryEmail = "b@x.com"
    /\ emailExists
    /\ last.resp.issuedFor = "a@x.com"
    /\ last.resp.options.userName = "a@x.com"

\* the response issues registration options
IssuesRegistration(resp) ==
    resp.kind = "response" /\ resp.status = 200 /\ resp.action = "register"
        /\ resp.options # NoOptions

\* the response is an error without options or cookie
Refuses(resp) ==
    resp.kind = "response" /\ resp.status = 400 /\ resp.options = NoOptions
        /\ resp.cookies = <<>>

\* C21: the two resolvers are not equivalent: on the same session, query and
\* storage, an explicit "register" from a logged-in caller who gives a query
\* email other than the session email is answered with registration options
\* by the if/else resolver and with an error by the switch-based resolver.
C21_ResolversDiverge ==
    (adapter /\ loggedIn) =>
        \A queryEmail \in Emails \ {sessionUserEmail} :
            /\ IssuesRegistration(passkeyOptions("register", queryEmail))
            /\ Refuses(passkeyOptionsSwitch("register", queryEmail))

C21_Witness ==
    /\ OptionsServed /\ adapter /\ loggedIn
    /\ last.impl = "switch"
    /\ last.action = "register"
    /\ last.queryEmail \in Emails \ {sessionUserEmail}
    /\ RefusedOptions
    /\ IssuesRegistration(passkeyOptions(last.action, last.queryEmail))

\* the cookie of the request was issued by a registration options request
RegistrationCookie ==
    last.cookie.sig = "valid" /\ last.cookie.data.providerAccountId # None

\* C22: a challenge is bound to the ceremony it was issued for:
\* verifyAuthentication returns no success payload on a cookie issued by a
\* registration options request, and verifyRegistration returns none on a
\* cookie issued by an authentication options request.
C22_ChallengeBoundToCeremony ==
    /\ (last.op = "verifyAuthentication" /\ RegistrationCookie)
         => last.result.kind # "ok"
    /\ (last.op = "verifyRegistration" /\ AuthenticationCookie)
         => last.result.kind # "ok"

\* C23: verifyRegistration returns a success payload for an email only if
\* the registration cookie it consumes was issued by an options request for
\* that email (stated for a cookie consumed right after it was issued).
C23_RegistrationEmailConsistent ==
    (last.op = "verifyRegistration" /\ RegistrationCookie /\ last.cookieFor \in Emails
       /\ last.result.kind = "ok")
        => last.email = last.cookieFor

\* C24: whenever verifyAuthentication ends in a thrown error, the stored
\* authenticators, counters included, are what they were before the call:
\* the counter of an authenticator without an owning user is never updated.
C24_ThrowLeavesCountersAlone ==
    (last.op = "verifyAuthentication" /\ last.result.kind = "throw")
        => authenticators = last.before

\* C25: an explicit action that is a non-empty string other than
\* "authenticate" and "register" is answered by both resolvers with status
\* 400 and a string body, without options or cookie, whatever the session,
\* the query email and the adapter.
C25_UnknownActionRefused ==
    (OptionsServed /\ last.action \notin {None, "", "authenticate", "register"}) =>
        /\ RefusedOptions
        /\ last.impl = "route" => last.resp.error = "invalid action"
        /\ last.impl = "switch" => last.resp.error = "Invalid action/email combination"

C25_Witness ==
    /\ OptionsServed
    /\ last.action = "delete"
    /\ last.impl = "route"
    /\ loggedIn
    /\ emailExists
    /\ RefusedOptions

====
